---- MODULE Spec2Model ----
(***************************************************************************)
(* A model of ConsoleLocaleTimestamp (src/src/ConsoleLocaleTimestamp.ts):  *)
(* a wrapper of the host console that writes a locale formatted timestamp  *)
(* to stdout or stderr before it delegates to the console method of the    *)
(* same name.                                                              *)
(*                                                                         *)
(* JavaScript values are records tagged with their type.  Text is a TLA+   *)
(* string, template literals are concatenations (\o).  The host (clock,    *)
(* Date.prototype.toLocaleTimeString, process.stdout / process.stderr,     *)
(* console) is modelled by what the wrapper hands to it and by whether it  *)
(* throws.  A call of a public method is one action; what the call did is  *)
(* recorded, in order, in events.                                          *)
(***************************************************************************)
EXTENDS Integers, Sequences, FiniteSets, TLC

VARIABLES
    phase,       \* "new": before new ConsoleLocaleTimestamp(...), "ready": constructed, "failed": the constructor threw
    locales,     \* this.#locales
    options,     \* this.#options
    openQuote,   \* this.#openQuote
    closeQuote,  \* this.#closeQuote
    separator,   \* this.#separator
    given,       \* the arguments the constructor was called with
    call,        \* the public method call observed last: method, arguments, host inputs
    logLevel,    \* the logLevel handed to _printTimestamp in that call ("none": not called)
    events,      \* what that call did, in order: stream writes and console invocations
    thrown       \* the exception that left the constructor or that call (NoError: returned)

config == <<locales, options, openQuote, closeQuote, separator>>
observed == <<call, logLevel, events, thrown>>
vars == <<phase, locales, options, openQuote, closeQuote, separator, given, call, logLevel, events, thrown>>

----------------------------------------------------------------------------
(* Bounds of the model *)

\* The longest argument list handed to a variadic method (...data, ...label).
MaxArgs == 2

----------------------------------------------------------------------------
(* JavaScript values *)

Undefined == [tag |-> "undefined"]
Null == [tag |-> "null"]
Str(s) == [tag |-> "string", s |-> s]
Number(n) == [tag |-> "number", n |-> n]
Boolean(b) == [tag |-> "boolean", b |-> b]
Object(props) == [tag |-> "object", props |-> props]
Array(items) == [tag |-> "array", items |-> items]

\* Object.prototype.toString.call(v)
ObjectToString(v) ==
    CASE v.tag = "undefined" -> "[object Undefined]"
      [] v.tag = "null" -> "[object Null]"
      [] v.tag = "string" -> "[object String]"
      [] v.tag = "number" -> "[object Number]"
      [] v.tag = "boolean" -> "[object Boolean]"
      [] v.tag = "array" -> "[object Array]"
      [] OTHER -> "[object Object]"

\* ToBoolean(v), as !condition applies it
ToBoolean(v) ==
    CASE v.tag = "undefined" -> FALSE
      [] v.tag = "null" -> FALSE
      [] v.tag = "string" -> v.s # ""
      [] v.tag = "number" -> v.n # 0
      [] v.tag = "boolean" -> v.b
      [] OTHER -> TRUE

\* The i-th formal parameter of a call made with the argument list args:
\* a parameter with no argument is undefined.
Param(args, i) == IF i <= Len(args) THEN args[i] ELSE Undefined

\* The rest parameter that starts at position i.
Rest(args, i) == SubSeq(args, i, Len(args))

----------------------------------------------------------------------------
(* Exceptions *)

NoError == [name |-> "none", message |-> ""]
TypeError(message) == [name |-> "TypeError", message |-> message]
RangeError(message) == [name |-> "RangeError", message |-> message]
Error(message) == [name |-> "Error", message |-> message]

----------------------------------------------------------------------------
(* The host: clock and Date.prototype.toLocaleTimeString *)

\* The instants `new Date()` reads in the model: midnight and an afternoon time.
Clock == {[h |-> 0, m |-> 0, s |-> 0], [h |-> 13, m |-> 5, s |-> 9]}

\* The locale the host formats with when no locale is given.
HostDefaultLocale == "en-US"

Digit == <<"0", "1", "2", "3", "4", "5", "6", "7", "8", "9">>

\* A number below 100 in decimal.
Numeric(n) == IF n < 10 THEN Digit[n + 1] ELSE Digit[(n \div 10) + 1] \o Digit[(n % 10) + 1]

\* A number below 100 in two digits.
TwoDigit(n) == Digit[(n \div 10) + 1] \o Digit[(n % 10) + 1]

\* Whether the host knows the locale identifier: a malformed language tag is rejected.
LocaleAccepted(l) == l.tag = "undefined" \/ l.s \in {"en-US", "ja-JP"}

\* Whether the host accepts the format options: a value it does not know for a
\* key it knows is rejected.
OptionsAccepted(o) ==
    \/ o.tag = "undefined"
    \/ \A k \in DOMAIN o.props : o.props[k] \in {"numeric", "2-digit"}

\* new Date().toLocaleTimeString(l, o) at the instant now: the text, or the
\* RangeError the host throws.
toLocaleTimeString(now, l, o) ==
    IF ~LocaleAccepted(l)
    THEN [error |-> RangeError("Incorrect locale information provided"), text |-> ""]
    ELSE IF ~OptionsAccepted(o)
    THEN [error |-> RangeError("Value out of range for Intl.DateTimeFormat options"), text |-> ""]
    ELSE LET locale == IF l.tag = "undefined" THEN HostDefaultLocale ELSE l.s
             minsec == TwoDigit(now.m) \o ":" \o TwoDigit(now.s)
             h12 == IF now.h % 12 = 0 THEN 12 ELSE now.h % 12
         IN  [error |-> NoError,
              text |-> IF o.tag # "undefined"
                       THEN minsec
                       ELSE IF locale = "en-US"
                       THEN Numeric(h12) \o ":" \o minsec \o (IF now.h < 12 THEN " AM" ELSE " PM")
                       ELSE Numeric(now.h) \o ":" \o minsec]

----------------------------------------------------------------------------
(* Events of a call *)

\* process.<stream>.write(text)
Write(stream, text) == [kind |-> "write", stream |-> stream, text |-> text]
\* console.<method>(...args)
Console(method, args) == [kind |-> "console", method |-> method, args |-> args]

\* What a method, or a part of it, did: the events in order, the exception
\* that ended it (NoError: it ran to its end) and the logLevel it handed on.
Result(ev, err, level) == [events |-> ev, thrown |-> err, logLevel |-> level]

\* stream.write(text): the text is on the stream, or the write throws.
StreamWrite(stream, text, host, level) ==
    IF host.writeOk
    THEN Result(<<Write(stream, text)>>, NoError, level)
    ELSE Result(<<>>, Error("write EPIPE"), level)

----------------------------------------------------------------------------
(* ConsoleLocaleTimestamp: private members *)

LOG_LEVEL == [log |-> "log", info |-> "info", warn |-> "warn", error |-> "error"]

\* _printTimestamp with the open quote on both sides of the time.
_printTimestamp_openQuoteTwice(level, separatorArg, host) ==
    LET sep == IF separatorArg.tag = "undefined" THEN separator ELSE separatorArg.s
        time == toLocaleTimeString(host.now, locales, options)
        timestamp == openQuote \o time.text \o openQuote \o sep
    IN  IF time.error # NoError
        THEN Result(<<>>, time.error, level)
        ELSE CASE level \in {LOG_LEVEL.log, LOG_LEVEL.info, LOG_LEVEL.warn} ->
                    StreamWrite("stdout", timestamp, host, level)
               [] level = LOG_LEVEL.error ->
                    StreamWrite("stderr", timestamp, host, level)
               [] OTHER ->
                    Result(<<>>, Error("An undefined logLevel was specified as an argument."), level)

\* _printTimestamp with warn routed to stderr, where console.warn prints.
_printTimestamp_warnToStderr(level, separatorArg, host) ==
    LET sep == IF separatorArg.tag = "undefined" THEN separator ELSE separatorArg.s
        time == toLocaleTimeString(host.now, locales, options)
        timestamp == openQuote \o time.text \o closeQuote \o sep
    IN  IF time.error # NoError
        THEN Result(<<>>, time.error, level)
        ELSE CASE level \in {LOG_LEVEL.log, LOG_LEVEL.info} ->
                    StreamWrite("stdout", timestamp, host, level)
               [] level \in {LOG_LEVEL.warn, LOG_LEVEL.error} ->
                    StreamWrite("stderr", timestamp, host, level)
               [] OTHER ->
                    Result(<<>>, Error("An undefined logLevel was specified as an argument."), level)

\* _printTimestamp(logLevel, separator = this.#separator)
_printTimestamp(level, separatorArg, host) ==
    LET sep == IF separatorArg.tag = "undefined" THEN separator ELSE separatorArg.s
        time == toLocaleTimeString(host.now, locales, options)
        timestamp == openQuote \o time.text \o closeQuote \o sep
    IN  IF time.error # NoError
        THEN Result(<<>>, time.error, level)
        ELSE CASE level \in {LOG_LEVEL.log, LOG_LEVEL.info, LOG_LEVEL.warn} ->
                    StreamWrite("stdout", timestamp, host, level)
               [] level = LOG_LEVEL.error ->
                    StreamWrite("stderr", timestamp, host, level)
               [] OTHER ->
                    Result(<<>>, Error("An undefined logLevel was specified as an argument."), level)

\* _printlnTimestamp that leaves the separator to its default.
_printlnTimestamp_configuredSeparator(level, host) == _printTimestamp(level, Undefined, host)

\* _printlnTimestamp(logLevel)
_printlnTimestamp(level, host) == _printTimestamp(level, Str("\n"), host)

\* A method that reaches its console call without any statement before it.
Nothing == Result(<<>>, NoError, "none")

\* The console invoked whatever first did, with its exception swallowed.
Then_delegatesAnyway(first, method, args) ==
    Result(first.events \o <<Console(method, args)>>, NoError, first.logLevel)

\* first; console.<method>(...args): the console is invoked unless first threw.
Then(first, method, args) ==
    IF first.thrown # NoError
    THEN first
    ELSE Result(first.events \o <<Console(method, args)>>, NoError, first.logLevel)


----------------------------------------------------------------------------
(* ConsoleLocaleTimestamp: the public methods.  Each takes the argument     *)
(* list it is called with and the host inputs of the call, and gives what   *)
(* the call does.                                                           *)

\* assert that prints the timestamp whatever the condition is.
assert_alwaysPrints(args, host) ==
    LET condition == Param(args, 1)
        data == Rest(args, 2)
    IN  Then(_printTimestamp(LOG_LEVEL.error, Undefined, host), "assert", <<condition>> \o data)

\* assert(condition?: boolean, ...data: any[])
assert(args, host) ==
    LET condition == Param(args, 1)
        data == Rest(args, 2)
    IN  Then(IF ~ToBoolean(condition)
             THEN _printTimestamp(LOG_LEVEL.error, Undefined, host)
             ELSE Nothing,
             "assert", <<condition>> \o data)

\* clear()
clear(args, host) == Then(Nothing, "clear", <<>>)

\* debug(...data: any[])
debug(args, host) == Then(_printTimestamp(LOG_LEVEL.log, Undefined, host), "debug", args)

\* error(...data: any[])
error(args, host) == Then(_printTimestamp(LOG_LEVEL.error, Undefined, host), "error", args)

\* info(...data: any[])
info(args, host) == Then(_printTimestamp(LOG_LEVEL.info, Undefined, host), "info", args)

\* log that invokes the console before it prints the timestamp.
log_delegatesFirst(args, host) ==
    LET printed == _printTimestamp(LOG_LEVEL.log, Undefined, host)
    IN  Result(<<Console("log", args)>> \o printed.events, printed.thrown, printed.logLevel)

\* log that prints no timestamp when it has nothing to log.
log_skipsWithoutData(args, host) ==
    Then(IF Len(args) > 0 THEN _printTimestamp(LOG_LEVEL.log, Undefined, host) ELSE Nothing,
         "log", args)

\* log(...data: any[])
log(args, host) == Then(_printTimestamp(LOG_LEVEL.log, Undefined, host), "log", args)

\* table that hands the console the tabular data alone.
table_propertiesDropped(args, host) ==
    LET tabularData == Param(args, 1)
    IN  Then(_printlnTimestamp(LOG_LEVEL.log, host), "table", <<tabularData>>)

\* table(tabularData?: any, properties?: string[])
table(args, host) ==
    LET tabularData == Param(args, 1)
        properties == Param(args, 2)
    IN  Then(_printlnTimestamp(LOG_LEVEL.log, host), "table", <<tabularData, properties>>)

\* trace(...data: any[])
trace(args, host) == Then(_printTimestamp(LOG_LEVEL.log, Undefined, host), "trace", args)

\* warn that hands the router a tag outside its four.
warn_unknownTag(args, host) == Then(_printTimestamp("warning", Undefined, host), "warn", args)

\* warn(...data: any[])
warn(args, host) == Then(_printTimestamp(LOG_LEVEL.warn, Undefined, host), "warn", args)

\* dir(item?: any, options?: any)
dir(args, host) ==
    LET item == Param(args, 1)
        opts == Param(args, 2)
    IN  Then(_printTimestamp(LOG_LEVEL.log, Undefined, host), "dir", <<item, opts>>)

\* dirxml(...data: any[])
dirxml(args, host) == Then(_printTimestamp(LOG_LEVEL.log, Undefined, host), "dirxml", args)

\* count that prints its timestamp at the log level.
count_atLogLevel(args, host) ==
    LET label == Param(args, 1)
    IN  Then(_printTimestamp(LOG_LEVEL.log, Undefined, host), "count", <<label>>)

\* count(label?: string)
count(args, host) ==
    LET label == Param(args, 1)
    IN  Then(_printTimestamp(LOG_LEVEL.info, Undefined, host), "count", <<label>>)

\* countReset(label?: string)
countReset(args, host) ==
    LET label == Param(args, 1)
    IN  Then(Nothing, "countReset", <<label>>)

\* group that prints the timestamp with or without a label.
group_alwaysPrints(args, host) ==
    Then(_printTimestamp(LOG_LEVEL.log, Undefined, host), "group", args)

\* group(...label: any[])
group(args, host) ==
    Then(IF Len(args) > 0 THEN _printTimestamp(LOG_LEVEL.log, Undefined, host) ELSE Nothing,
         "group", args)

\* groupCollapsed that delegates to console.group.
groupCollapsed_callsGroup(args, host) ==
    Then(IF Len(args) > 0 THEN _printTimestamp(LOG_LEVEL.log, Undefined, host) ELSE Nothing,
         "group", args)

\* groupCollapsed(...label: any[])
groupCollapsed(args, host) ==
    Then(IF Len(args) > 0 THEN _printTimestamp(LOG_LEVEL.log, Undefined, host) ELSE Nothing,
         "groupCollapsed", args)

\* groupEnd()
groupEnd(args, host) == Then(Nothing, "groupEnd", <<>>)

\* time that prints a timestamp, as timeEnd does.
time_printsTimestamp(args, host) ==
    LET label == Param(args, 1)
    IN  Then(_printTimestamp(LOG_LEVEL.info, Undefined, host), "time", <<label>>)

\* time(label?: string)
time(args, host) ==
    LET label == Param(args, 1)
    IN  Then(Nothing, "time", <<label>>)

\* timeLog(label?: string, ...data: any[])
timeLog(args, host) ==
    LET label == Param(args, 1)
        data == Rest(args, 2)
    IN  Then(_printTimestamp(LOG_LEVEL.log, Undefined, host), "timeLog", <<label>> \o data)

\* timeEnd(label?: string)
timeEnd(args, host) ==
    LET label == Param(args, 1)
    IN  Then(_printTimestamp(LOG_LEVEL.info, Undefined, host), "timeEnd", <<label>>)

----------------------------------------------------------------------------
(* The signatures of the public methods *)

Methods ==
    {"assert", "clear", "debug", "error", "info", "log", "table", "trace", "warn", "dir",
     "dirxml", "count", "countReset", "group", "groupCollapsed", "groupEnd", "time",
     "timeLog", "timeEnd"}

\* The methods declared with a rest parameter.
Variadic ==
    {"assert", "debug", "error", "info", "log", "trace", "warn", "dirxml", "group",
     "groupCollapsed", "timeLog"}

\* The number of parameters a method declares before its rest parameter.
Positional(method) ==
    CASE method \in {"table", "dir"} -> 2
      [] method \in {"assert", "count", "countReset", "time", "timeLog", "timeEnd"} -> 1
      [] OTHER -> 0

----------------------------------------------------------------------------
(* The inputs of the model *)

\* The values handed to the methods: the string and (as false) a condition of
\* the tests, the payload of the documented scenario, and undefined.
ArgValues == {Undefined, Boolean(FALSE), Str("Hello World!"), Str("Hello")}

\* The argument lists of at most n values.
ArgLists(n) == UNION {[1..k -> ArgValues] : k \in 0..n}

\* The argument lists a method's signature admits: one value or none for each
\* declared parameter, and at most MaxArgs values for a rest parameter.
Accepted(method) ==
    ArgLists(Positional(method) + IF method \in Variadic THEN MaxArgs ELSE 0)

\* The host inputs of a call: the instant new Date() reads, and whether the
\* stream takes the write.
Host == [now : Clock, writeOk : BOOLEAN]

\* The arguments of the constructor, valid and invalid.
LocalesArgs == {Undefined, Str("en-US"), Str("ja-JP"), Str("en_US"), Number(1)}
OptionsArgs ==
    {Undefined, Object([minute |-> "2-digit", second |-> "2-digit"]), Object([hour |-> "bogus"]),
     Array(<<Str("2-digit")>>), Number(1)}
QuoteArgs ==
    {Undefined, Array(<<>>), Array(<<Str("*")>>), Array(<<Str("["), Str("]")>>),
     Array(<<Str("["), Str(" ]")>>),
     Array(<<Str("["), Str("]"), Str("!")>>), Array(<<Str("["), Number(1)>>), Str("[]")}
SeparatorArgs == {Undefined, Str(" - "), Str(""), Number(1)}

----------------------------------------------------------------------------
(* ConsoleLocaleTimestamp: the constructor *)

\* The fields as their initialisers leave them, before the constructor's body.
FieldDefaults ==
    [locales |-> Undefined, options |-> Undefined, openQuote |-> "", closeQuote |-> "",
     separator |-> " ", thrown |-> NoError]

\* if (locales !== undefined) { ... this.#locales = locales; }
CheckLocales(f, l) ==
    IF f.thrown # NoError \/ l.tag = "undefined" THEN f
    ELSE IF ObjectToString(l) # "[object String]"
    THEN [f EXCEPT !.thrown = TypeError("The argument locales must be an String.")]
    ELSE [f EXCEPT !.locales = l]

\* if (options !== undefined) { ... this.#options = options; }
CheckOptions(f, o) ==
    IF f.thrown # NoError \/ o.tag = "undefined" THEN f
    ELSE IF ObjectToString(o) # "[object Object]"
    THEN [f EXCEPT !.thrown = TypeError("The argument options must be an Object.")]
    ELSE [f EXCEPT !.options = o]

\* The quote check with the length failure raised as a TypeError, like the others.
CheckQuote_lengthTypeError(f, q) ==
    IF f.thrown # NoError \/ q.tag = "undefined" THEN f
    ELSE IF ObjectToString(q) # "[object Array]"
    THEN [f EXCEPT !.thrown = TypeError("The argument quote must be an Array.")]
    ELSE IF Len(q.items) < 1 \/ Len(q.items) > 2
    THEN [f EXCEPT !.thrown = TypeError("The argument quote must be an Array of length 1 or 2.")]
    ELSE IF ~(\A i \in 1..Len(q.items) : ObjectToString(q.items[i]) = "[object String]")
    THEN [f EXCEPT !.thrown = TypeError("The contents of the Array of arguments quote must be a String.")]
    ELSE [f EXCEPT !.openQuote = q.items[1].s,
                   !.closeQuote = IF Len(q.items) = 1 THEN q.items[1].s ELSE q.items[2].s]

\* The quote check with a length of 3 let through.
CheckQuote_lengthThreeAccepted(f, q) ==
    IF f.thrown # NoError \/ q.tag = "undefined" THEN f
    ELSE IF ObjectToString(q) # "[object Array]"
    THEN [f EXCEPT !.thrown = TypeError("The argument quote must be an Array.")]
    ELSE IF Len(q.items) < 1 \/ Len(q.items) > 3
    THEN [f EXCEPT !.thrown = RangeError("The argument quote must be an Array of length 1 or 2.")]
    ELSE IF ~(\A i \in 1..Len(q.items) : ObjectToString(q.items[i]) = "[object String]")
    THEN [f EXCEPT !.thrown = TypeError("The contents of the Array of arguments quote must be a String.")]
    ELSE [f EXCEPT !.openQuote = q.items[1].s,
                   !.closeQuote = IF Len(q.items) = 1 THEN q.items[1].s ELSE q.items[2].s]

\* The quote assignment with the close quote always taken from the first element.
CheckQuote_closeFromFirst(f, q) ==
    IF f.thrown # NoError \/ q.tag = "undefined" THEN f
    ELSE IF ObjectToString(q) # "[object Array]"
    THEN [f EXCEPT !.thrown = TypeError("The argument quote must be an Array.")]
    ELSE IF Len(q.items) < 1 \/ Len(q.items) > 2
    THEN [f EXCEPT !.thrown = RangeError("The argument quote must be an Array of length 1 or 2.")]
    ELSE IF ~(\A i \in 1..Len(q.items) : ObjectToString(q.items[i]) = "[object String]")
    THEN [f EXCEPT !.thrown = TypeError("The contents of the Array of arguments quote must be a String.")]
    ELSE [f EXCEPT !.openQuote = q.items[1].s, !.closeQuote = q.items[1].s]

\* if (quote !== undefined) { ... this.#openQuote = quote[0]; this.#closeQuote = ...; }
CheckQuote(f, q) ==
    IF f.thrown # NoError \/ q.tag = "undefined" THEN f
    ELSE IF ObjectToString(q) # "[object Array]"
    THEN [f EXCEPT !.thrown = TypeError("The argument quote must be an Array.")]
    ELSE IF Len(q.items) < 1 \/ Len(q.items) > 2
    THEN [f EXCEPT !.thrown = RangeError("The argument quote must be an Array of length 1 or 2.")]
    ELSE IF ~(\A i \in 1..Len(q.items) : ObjectToString(q.items[i]) = "[object String]")
    THEN [f EXCEPT !.thrown = TypeError("The contents of the Array of arguments quote must be a String.")]
    ELSE [f EXCEPT !.openQuote = q.items[1].s,
                   !.closeQuote = IF Len(q.items) = 1 THEN q.items[1].s ELSE q.items[2].s]

\* if (separator !== undefined) { ... this.#separator = separator; }
CheckSeparator(f, s) ==
    IF f.thrown # NoError \/ s.tag = "undefined" THEN f
    ELSE IF ObjectToString(s) # "[object String]"
    THEN [f EXCEPT !.thrown = TypeError("The argument separator must be an String.")]
    ELSE [f EXCEPT !.separator = s.s]

\* The constructor with the separator checked and assigned first.
Construct_separatorFirst(l, o, q, s) ==
    CheckQuote(CheckOptions(CheckLocales(CheckSeparator(FieldDefaults, s), l), o), q)

\* The fields and the exception at the end of constructor(l, o, q, s).
Construct(l, o, q, s) ==
    CheckSeparator(CheckQuote(CheckOptions(CheckLocales(FieldDefaults, l), o), q), s)

----------------------------------------------------------------------------
(* The state machine *)

NoCall == [method |-> "none", args |-> <<>>,
           host |-> [now |-> [h |-> 0, m |-> 0, s |-> 0], writeOk |-> TRUE]]

NotGiven == [locales |-> Undefined, options |-> Undefined, quote |-> Undefined, separator |-> Undefined]

Init ==
    /\ phase = "new"
    /\ locales = FieldDefaults.locales
    /\ options = FieldDefaults.options
    /\ openQuote = FieldDefaults.openQuote
    /\ closeQuote = FieldDefaults.closeQuote
    /\ separator = FieldDefaults.separator
    /\ given = NotGiven
    /\ call = NoCall
    /\ logLevel = "none"
    /\ events = <<>>
    /\ thrown = NoError

\* new ConsoleLocaleTimestamp(l, o, q, s)
constructor ==
    /\ phase = "new"
    /\ \E l \in LocalesArgs, o \in OptionsArgs, q \in QuoteArgs, s \in SeparatorArgs :
         LET f == Construct(l, o, q, s)
         IN  /\ phase' = IF f.thrown = NoError THEN "ready" ELSE "failed"
             /\ locales' = f.locales
             /\ options' = f.options
             /\ openQuote' = f.openQuote
             /\ closeQuote' = f.closeQuote
             /\ separator' = f.separator
             /\ thrown' = f.thrown
             /\ given' = [locales |-> l, options |-> o, quote |-> q, separator |-> s]
    /\ UNCHANGED <<call, logLevel, events>>

\* The instance is constructed and no call is under observation.
Idle == phase = "ready" /\ call.method = "none"

\* A call that leaves the newline table forces in the separator field.
Invoke_keepsForcedSeparator(method, args, host, r) ==
    /\ call' = [method |-> method, args |-> args, host |-> host]
    /\ logLevel' = r.logLevel
    /\ events' = r.events
    /\ thrown' = r.thrown
    /\ separator' = IF method = "table" THEN "\n" ELSE separator
    /\ UNCHANGED <<phase, locales, options, openQuote, closeQuote, given>>

\* A call of a public method on the constructed instance, with result r.
Invoke(method, args, host, r) ==
    /\ call' = [method |-> method, args |-> args, host |-> host]
    /\ logLevel' = r.logLevel
    /\ events' = r.events
    /\ thrown' = r.thrown
    /\ UNCHANGED <<phase, config, given>>

Call_assert ==
    /\ Idle
    /\ \E args \in Accepted("assert"), host \in Host :
         Invoke("assert", args, host, assert(args, host))
Call_clear ==
    /\ Idle
    /\ \E args \in Accepted("clear"), host \in Host :
         Invoke("clear", args, host, clear(args, host))
Call_debug ==
    /\ Idle
    /\ \E args \in Accepted("debug"), host \in Host :
         Invoke("debug", args, host, debug(args, host))
Call_error ==
    /\ Idle
    /\ \E args \in Accepted("error"), host \in Host :
         Invoke("error", args, host, error(args, host))
Call_info ==
    /\ Idle
    /\ \E args \in Accepted("info"), host \in Host :
         Invoke("info", args, host, info(args, host))
Call_log ==
    /\ Idle
    /\ \E args \in Accepted("log"), host \in Host :
         Invoke("log", args, host, log(args, host))
Call_table ==
    /\ Idle
    /\ \E args \in Accepted("table"), host \in Host :
         Invoke("table", args, host, table(args, host))
Call_trace ==
    /\ Idle
    /\ \E args \in Accepted("trace"), host \in Host :
         Invoke("trace", args, host, trace(args, host))
Call_warn ==
    /\ Idle
    /\ \E args \in Accepted("warn"), host \in Host :
         Invoke("warn", args, host, warn(args, host))
Call_dir ==
    /\ Idle
    /\ \E args \in Accepted("dir"), host \in Host :
         Invoke("dir", args, host, dir(args, host))
Call_dirxml ==
    /\ Idle
    /\ \E args \in Accepted("dirxml"), host \in Host :
         Invoke("dirxml", args, host, dirxml(args, host))
Call_count ==
    /\ Idle
    /\ \E args \in Accepted("count"), host \in Host :
         Invoke("count", args, host, count(args, host))
Call_countReset ==
    /\ Idle
    /\ \E args \in Accepted("countReset"), host \in Host :
         Invoke("countReset", args, host, countReset(args, host))
Call_group ==
    /\ Idle
    /\ \E args \in Accepted("group"), host \in Host :
         Invoke("group", args, host, group(args, host))
Call_groupCollapsed ==
    /\ Idle
    /\ \E args \in Accepted("groupCollapsed"), host \in Host :
         Invoke("groupCollapsed", args, host, groupCollapsed(args, host))
Call_groupEnd ==
    /\ Idle
    /\ \E args \in Accepted("groupEnd"), host \in Host :
         Invoke("groupEnd", args, host, groupEnd(args, host))
Call_time ==
    /\ Idle
    /\ \E args \in Accepted("time"), host \in Host :
         Invoke("time", args, host, time(args, host))
Call_timeLog ==
    /\ Idle
    /\ \E args \in Accepted("timeLog"), host \in Host :
         Invoke("timeLog", args, host, timeLog(args, host))
Call_timeEnd ==
    /\ Idle
    /\ \E args \in Accepted("timeEnd"), host \in Host :
         Invoke("timeEnd", args, host, timeEnd(args, host))

\* The caller has looked at what the call did (the tests' spies are restored):
\* the instance is ready for its next call.
mockRestore ==
    /\ call.method # "none"
    /\ call' = NoCall
    /\ logLevel' = "none"
    /\ events' = <<>>
    /\ thrown' = NoError
    /\ UNCHANGED <<phase, config, given>>

Next ==
    \/ constructor
    \/ Call_assert \/ Call_clear \/ Call_debug \/ Call_error \/ Call_info \/ Call_log
    \/ Call_table \/ Call_trace \/ Call_warn \/ Call_dir \/ Call_dirxml \/ Call_count
    \/ Call_countReset \/ Call_group \/ Call_groupCollapsed \/ Call_groupEnd \/ Call_time
    \/ Call_timeLog \/ Call_timeEnd
    \/ mockRestore

Spec == Init /\ [][Next]_vars

----------------------------------------------------------------------------
(* What a call is observed to have done *)

\* A public method has been called.
Called == phase = "ready" /\ call.method # "none"

\* The call ran to its end: nothing was thrown in it.
Returned == Called /\ thrown = NoError

IsWrite(e) == e.kind = "write"
IsConsole(e) == e.kind = "console"

\* The stream writes of the call, in order.
Writes == SelectSeq(events, IsWrite)

\* The console invocations of the call, in order.
Consoles == SelectSeq(events, IsConsole)

\* The host's formatting of the instant of the call under the stored locale
\* and options.
FormattedTime == toLocaleTimeString(call.host.now, locales, options).text

\* The methods that hand the router a tag whatever their arguments are.
AlwaysEmitting ==
    {"debug", "error", "info", "log", "table", "trace", "warn", "dir", "dirxml", "count",
     "timeLog", "timeEnd"}

\* The call has no argument for its rest parameter.
NoPayload == Len(call.args) <= Positional(call.method)

----------------------------------------------------------------------------
(* The claims *)

\* C1: in a call of any method other than table, the text written to a
\* stream is exactly open quote + the host's formatting of the current time
\* under the stored locale and options + close quote + the configured
\* separator, in that order; and a call of an emitting method that returns
\* has written that text.
C1_FragmentText ==
    (Called /\ call.method # "table") =>
        /\ \A i \in 1..Len(Writes) :
             Writes[i].text = openQuote \o FormattedTime \o closeQuote \o separator
        /\ (Returned /\ logLevel # "none") => Len(Writes) = 1

\* C1 witness: log has written a fragment under a configuration with two
\* different quotes and a separator that is not the default.
C1_Witness ==
    /\ Returned /\ call.method = "log"
    /\ openQuote = "[" /\ closeQuote = "]" /\ separator = " - "
    /\ locales = Str("ja-JP") /\ call.host.now.h = 13
    /\ Writes = <<Write("stdout", "[13:05:09] - ")>>

\* C2: when the router is handed log, info or warn, every write of the call
\* is to stdout and none to stderr; handed error, every write is to stderr
\* and none to stdout; and it writes exactly once when nothing is thrown.
C2_RouterOneStream ==
    (Called /\ logLevel # "none") =>
        /\ logLevel \in {"log", "info", "warn"} => \A i \in 1..Len(Writes) : Writes[i].stream = "stdout"
        /\ logLevel = "error" => \A i \in 1..Len(Writes) : Writes[i].stream = "stderr"
        /\ Len(Writes) = IF thrown = NoError THEN 1 ELSE 0

\* C2 witness: a warn call has written to stdout.
C2_Witness ==
    /\ Returned /\ logLevel = "warn"
    /\ Len(Writes) = 1 /\ Writes[1].stream = "stdout"

\* The severity tag of the mapping table.
SeverityOf(method) ==
    CASE method \in {"assert", "error"} -> "error"
      [] method \in {"debug", "log", "trace", "dir", "dirxml", "timeLog", "table", "group",
                     "groupCollapsed"} -> "log"
      [] method \in {"info", "count", "timeEnd"} -> "info"
      [] method = "warn" -> "warn"
      [] OTHER -> "none"

\* C3: the tag a method hands the router is the one the mapping table fixes
\* for it, whatever the arguments and the configuration; the methods that
\* always emit always hand it one.
C3_SeverityMapping ==
    Called =>
        /\ logLevel # "none" => logLevel = SeverityOf(call.method)
        /\ call.method \in AlwaysEmitting => logLevel # "none"

\* C3 witness: count has handed the router info.
C3_Witness == Called /\ call.method = "count" /\ logLevel = "info"

\* C4: a call writes at most one fragment and never writes after it has
\* invoked the console; a call that emits and returns has written exactly
\* one fragment and then invoked the console.
C4_WriteThenDelegate ==
    Called =>
        /\ Len(Writes) <= 1
        /\ \A i, j \in 1..Len(events) : (i < j /\ IsConsole(events[i])) => ~IsWrite(events[j])
        /\ (Returned /\ logLevel # "none") =>
             /\ Len(events) = 2
             /\ IsWrite(events[1])
             /\ IsConsole(events[2])

\* C4 witness: log has written its fragment and then invoked the console.
C4_Witness ==
    /\ Returned /\ call.method = "log" /\ Len(call.args) = 1
    /\ Len(events) = 2 /\ IsWrite(events[1]) /\ IsConsole(events[2])

\* C5 as stated: the argument list handed to the console is the received
\* one: same length, same values, same order.
C5_Original == Returned => \A i \in 1..Len(Consoles) : Consoles[i].args = call.args

\* An argument list with undefined for each declared parameter it has no
\* argument for.
Padded(args, n) == [i \in 1..(IF Len(args) < n THEN n ELSE Len(args)) |-> Param(args, i)]

\* C5 as amended: the argument list handed to the console is the received
\* one, in the same order, followed by one undefined for each declared
\* (non-rest) parameter the call gave no argument for.
C5_ArgumentsPadded ==
    Returned =>
        /\ Len(Consoles) = 1
        /\ Consoles[1].args = Padded(call.args, Positional(call.method))

\* C5 witness: table(data) has handed the console (data, undefined).
C5_Witness ==
    /\ Returned /\ call.method = "table" /\ call.args = <<Str("Hello World!")>>
    /\ Consoles = <<Console("table", <<Str("Hello World!"), Undefined>>)>>

\* C6: a call invokes no console method but the one of its own name and
\* that one at most once; a call that returns has invoked it exactly once,
\* whether or not it emitted a timestamp.
C6_DelegatesOnce ==
    Called =>
        /\ \A i \in 1..Len(Consoles) : Consoles[i].method = call.method
        /\ Len(Consoles) <= 1
        /\ Returned => Len(Consoles) = 1

\* C6 witness: groupCollapsed() with no label has emitted nothing and
\* invoked console.groupCollapsed once.
C6_Witness ==
    /\ Returned /\ call.method = "groupCollapsed" /\ call.args = <<>>
    /\ events = <<Console("groupCollapsed", <<>>)>>

\* C7: assert with a falsy condition that returns has written one fragment
\* to stderr and then invoked console.assert; assert with a truthy condition
\* writes nothing to either stream and invokes console.assert.
C7_Assert ==
    (Called /\ call.method = "assert") =>
        IF ToBoolean(Param(call.args, 1))
        THEN Len(events) = 1 /\ IsConsole(events[1]) /\ events[1].method = "assert"
        ELSE Returned =>
               /\ Len(events) = 2
               /\ IsWrite(events[1]) /\ events[1].stream = "stderr"
               /\ IsConsole(events[2]) /\ events[2].method = "assert"

\* C7 witness: assert(false, data) has written to stderr and delegated.
C7_Witness ==
    /\ Returned /\ call.method = "assert"
    /\ call.args = <<Boolean(FALSE), Str("Hello World!")>>
    /\ Len(events) = 2 /\ events[1].stream = "stderr"

\* C8: the fragment table writes is open quote + formatted time + close
\* quote + newline whatever the configured separator is, and a table call
\* that returns has written it to stdout before it invoked the console.
C8_TableNewline ==
    (Called /\ call.method = "table") =>
        /\ \A i \in 1..Len(Writes) :
             Writes[i] = Write("stdout", openQuote \o FormattedTime \o closeQuote \o "\n")
        /\ Returned => (Len(events) = 2 /\ IsWrite(events[1]) /\ IsConsole(events[2]))

\* C8 witness: table has written a fragment that ends with a newline under a
\* configured separator that is not a newline.
C8_Witness ==
    /\ Returned /\ call.method = "table" /\ separator = " - " /\ openQuote = "*"
    /\ locales = Str("en-US") /\ call.host.now.h = 0
    /\ events[1] = Write("stdout", "*12:00:00 AM*\n")

\* C9: group and groupCollapsed called with no label write to neither
\* stream; called with a label, and returning, they have written exactly one
\* fragment, to stdout, before they invoked the console.
C9_GroupLabels ==
    (Called /\ call.method \in {"group", "groupCollapsed"}) =>
        IF Len(call.args) = 0
        THEN Len(Writes) = 0 /\ logLevel = "none"
        ELSE Returned =>
               /\ Len(Writes) = 1
               /\ IsWrite(events[1]) /\ events[1].stream = "stdout"
               /\ IsConsole(events[2])

\* C9 witness: group(label) has written one fragment to stdout.
C9_Witness ==
    /\ Returned /\ call.method = "group" /\ Len(call.args) = 1
    /\ Len(Writes) = 1 /\ Writes[1].stream = "stdout"

\* The methods C10 lists: those with a rest parameter for their payload.
VariadicPayload ==
    {"debug", "error", "info", "log", "trace", "warn", "dirxml", "timeLog", "group",
     "groupCollapsed"}

\* C10 as stated: a method with a rest parameter for its payload writes no
\* timestamp when it is called with no payload argument.
C10_Original ==
    (Called /\ call.method \in VariadicPayload /\ NoPayload) => Len(Writes) = 0

\* C10 as amended: called with no payload argument, group and groupCollapsed
\* write no timestamp, and debug, error, info, log, trace, warn, dirxml and
\* timeLog, when they return, have written exactly one, before they invoked
\* the console.
C10_OnlyGroupsSkip ==
    (Called /\ call.method \in VariadicPayload /\ NoPayload) =>
        IF call.method \in {"group", "groupCollapsed"}
        THEN Len(Writes) = 0
        ELSE Returned => (Len(Writes) = 1 /\ IsWrite(events[1]) /\ IsConsole(events[2]))

\* C10 witness: log() with no argument has written a fragment.
C10_Witness ==
    /\ Returned /\ call.method = "log" /\ call.args = <<>>
    /\ Len(Writes) = 1 /\ events[2] = Console("log", <<>>)

\* C11: clear, countReset, groupEnd and time write to neither stream and hand
\* the router no tag, whatever their arguments, the configuration and the
\* calls made before: all they do is invoke the console method of their name.
C11_SilentMethods ==
    (Called /\ call.method \in {"clear", "countReset", "groupEnd", "time"}) =>
        /\ Len(Writes) = 0
        /\ logLevel = "none"
        /\ thrown = NoError
        /\ Len(events) = 1 /\ IsConsole(events[1]) /\ events[1].method = call.method

\* C11 witness: time(label) has only delegated, on an instance with quotes
\* and a separator configured, with a host that would have refused a write.
C11_Witness ==
    /\ Called /\ call.method = "time" /\ call.args = <<Str("Hello World!")>>
    /\ openQuote = "[" /\ separator = " - " /\ ~call.host.writeOk
    /\ events = <<Console("time", <<Str("Hello World!")>>)>>

----------------------------------------------------------------------------
(* The claims about construction, stated of the arguments the constructor *)
(* was given                                                              *)

\* A value is provided: it is not undefined.
Provided(v) == v.tag # "undefined"

\* A textual value.
Textual(v) == v.tag = "string"

\* The sequence given as quote has a length other than 1 or 2.
QuoteLengthInvalid(q) == Provided(q) /\ q.tag = "array" /\ Len(q.items) \notin {1, 2}

LocalesInvalid(l) == Provided(l) /\ ~Textual(l)
OptionsInvalid(o) == Provided(o) /\ o.tag # "object"
QuoteInvalid(q) ==
    /\ Provided(q)
    /\ \/ q.tag # "array"
       \/ Len(q.items) = 0
       \/ Len(q.items) >= 3
       \/ \E i \in 1..Len(q.items) : ~Textual(q.items[i])
SeparatorInvalid(s) == Provided(s) /\ ~Textual(s)

\* C12: construction fails, with an exception and no instance, exactly when a
\* provided locale is not textual, or provided options are not a key/value
\* object, or a provided quote is not a sequence, has length 0 or 3 or more
\* or holds a non-textual element, or a provided separator is not textual;
\* for every other combination it succeeds; either way it writes nothing.
C12_ConstructionValidity ==
    phase # "new" =>
        /\ phase = "failed" <=>
             \/ LocalesInvalid(given.locales)
             \/ OptionsInvalid(given.options)
             \/ QuoteInvalid(given.quote)
             \/ SeparatorInvalid(given.separator)
        /\ phase = "failed" => thrown # NoError
        /\ call.method = "none" => (events = <<>> /\ logLevel = "none")
        /\ (phase = "ready" /\ call.method = "none") => thrown = NoError

\* C12 witness: construction has failed on a quote of length 3 given with
\* three valid other inputs.
C12_Witness ==
    /\ phase = "failed"
    /\ given = [locales |-> Str("en-US"),
                options |-> Object([minute |-> "2-digit", second |-> "2-digit"]),
                quote |-> Array(<<Str("["), Str("]"), Str("!")>>),
                separator |-> Str(" - ")]
    /\ events = <<>>

\* The quotes a valid quote input stands for.
QuotesOf(q) ==
    IF ~Provided(q) THEN <<"", "">>
    ELSE IF Len(q.items) = 1 THEN <<q.items[1].s, q.items[1].s>>
    ELSE <<q.items[1].s, q.items[2].s>>

\* C13: the configuration of a constructed instance is: the locale given or
\* unset, the options given or unset, the quotes ("", "") without a quote
\* input, (q[0], q[0]) for one of length 1, (q[0], q[1]) for one of length 2,
\* and the separator given or a single space; each depends on its own input
\* alone.
C13_ConstructedConfiguration ==
    phase = "ready" =>
        /\ locales = given.locales
        /\ options = given.options
        /\ <<openQuote, closeQuote>> = QuotesOf(given.quote)
        /\ separator = IF Provided(given.separator) THEN given.separator.s ELSE " "

\* C13 witness: an instance constructed from a quote of length 2 alone has
\* the two quotes, no locale, no options and the single space.
C13_Witness ==
    /\ phase = "ready" /\ call.method = "none"
    /\ given = [locales |-> Undefined, options |-> Undefined,
                quote |-> Array(<<Str("["), Str("]")>>), separator |-> Undefined]
    /\ config = <<Undefined, Undefined, "[", "]", " ">>

----------------------------------------------------------------------------
(* The claims about calls, continued *)

\* The documented scenario: an instance constructed with locale "en-US", no
\* options, quote ["[", " ]"] and separator " - ", whose log has been called
\* with the payload "Hello" and has returned.
Scenario ==
    /\ Returned
    /\ given = [locales |-> Str("en-US"), options |-> Undefined,
                quote |-> Array(<<Str("["), Str(" ]")>>), separator |-> Str(" - ")]
    /\ call.method = "log"
    /\ call.args = <<Str("Hello")>>

\* C14 as stated: in the scenario, log writes "[" + the en-US time + "] - "
\* to stdout and then hands "Hello" to console.log.
C14_Original ==
    Scenario =>
        events = <<Write("stdout", "[" \o FormattedTime \o "] - "), Console("log", <<Str("Hello")>>)>>

\* C14 as amended: in the scenario, log writes "[" + the en-US time + " ] - "
\* (the close quote is the " ]" that was given, space included) to stdout
\* and then hands "Hello" to console.log.
C14_ScenarioOutput ==
    Scenario =>
        /\ FormattedTime \in {"12:00:00 AM", "1:05:09 PM"}
        /\ events = <<Write("stdout", "[" \o FormattedTime \o " ] - "), Console("log", <<Str("Hello")>>)>>

\* C14 witness: the scenario at 13:05:09.
C14_Witness ==
    /\ Scenario
    /\ events = <<Write("stdout", "[1:05:09 PM ] - "), Console("log", <<Str("Hello")>>)>>

----------------------------------------------------------------------------
(* The claims about construction, continued *)

\* The position of the first input that fails validation, in the order the
\* constructor checks them: locale, options, quote, separator.
FailingInput ==
    IF LocalesInvalid(given.locales) THEN 1
    ELSE IF OptionsInvalid(given.options) THEN 2
    ELSE IF QuoteInvalid(given.quote) THEN 3
    ELSE 4

\* C15 as stated: when construction fails, no field holds a value taken
\* from the inputs: every field is as its initialiser left it.
C15_Original ==
    phase = "failed" => config = <<Undefined, Undefined, "", "", " ">>

\* C15 as amended: when construction fails, the fields of the inputs checked
\* before the failing one (in the order locale, options, quote, separator)
\* hold the values given, and the field of the failing input and of every
\* later input is as its initialiser left it.
C15_FieldsAtFailure ==
    phase = "failed" =>
        /\ locales = IF FailingInput > 1 THEN given.locales ELSE Undefined
        /\ options = IF FailingInput > 2 THEN given.options ELSE Undefined
        /\ <<openQuote, closeQuote>> = IF FailingInput > 3 THEN QuotesOf(given.quote) ELSE <<"", "">>
        /\ separator = " "

\* C15 witness: construction has failed on its separator with the locale,
\* the options and the quotes already assigned.
C15_Witness ==
    /\ phase = "failed"
    /\ given.separator = Number(1)
    /\ config = <<Str("ja-JP"), Object([hour |-> "bogus"]), "*", "*", " ">>

\* C16: once the instance is constructed, no step changes a configuration
\* field: not a call of table, which forces a newline separator, nor a call
\* that throws.
C16_ConfigurationFrozen ==
    [][phase = "ready" => (config' = config /\ phase' = "ready")]_vars

\* C16 witness: table has written its newline on an instance whose separator
\* is still the empty one it was constructed with.
C16_Witness ==
    /\ Returned /\ call.method = "table"
    /\ given.separator = Str("") /\ separator = ""
    /\ given.quote = Undefined /\ Writes[1].text = FormattedTime \o "\n"

\* The kind the first of the validation failures, that of the locale, has.
LocaleFailureKind == CheckLocales(FieldDefaults, Number(1)).thrown.name

\* C17 as stated, for construction: every validation failure raises one and
\* the same kind of error.
C17_Original == phase = "failed" => thrown.name = LocaleFailureKind

\* C17 as amended: a construction failure raises a RangeError when it is the
\* quote's length that fails and a TypeError otherwise, and the router,
\* handed a tag outside its four on an instance the host formats for, raises
\* an Error, which is neither.
C17_ErrorKinds ==
    /\ phase = "failed" =>
         thrown.name = IF FailingInput = 3 /\ QuoteLengthInvalid(given.quote)
                       THEN "RangeError" ELSE "TypeError"
    /\ Idle =>
         \A host \in Host :
             toLocaleTimeString(host.now, locales, options).error = NoError =>
                 /\ _printTimestamp("verbose", Undefined, host).thrown.name = "Error"
                 /\ _printTimestamp("verbose", Undefined, host).events = <<>>

\* C17 witness: construction has failed with a RangeError.
C17_Witness ==
    /\ phase = "failed" /\ thrown.name = "RangeError"
    /\ given.quote = Array(<<>>)

----------------------------------------------------------------------------
(* The claims about failures in a call *)

\* The failure of the router handed a tag it does not know.
UndefinedLogLevel == Error("An undefined logLevel was specified as an argument.")

\* C18: whatever method is called, with whatever arguments, on whatever
\* instance and after whatever calls, the tag handed to the router is one of
\* log, info, warn, error, and the router's failure is never raised.
C18_RouterFailureUnreachable ==
    Called =>
        /\ logLevel \in {"none", "log", "info", "warn", "error"}
        /\ thrown # UndefinedLogLevel

\* C18 witness: warn has handed the router warn and has returned.
C18_Witness == Returned /\ call.method = "warn" /\ logLevel = "warn" /\ Len(Writes) = 1

\* The failure of the host in the emission of the call, if any: the
\* formatter's, or else the stream's.
EmissionFailure ==
    IF toLocaleTimeString(call.host.now, locales, options).error # NoError
    THEN toLocaleTimeString(call.host.now, locales, options).error
    ELSE IF ~call.host.writeOk THEN Error("write EPIPE")
    ELSE NoError

\* C19: when the host's formatter rejects the stored locale or options, or
\* the stream write fails, in a call that emits, that failure is what the
\* call throws, nothing is written, the console is not invoked, and the
\* configuration is still the one the instance was constructed with.
C19_EmissionFailurePropagates ==
    (Called /\ logLevel # "none" /\ EmissionFailure # NoError) =>
        /\ thrown = EmissionFailure
        /\ events = <<>>
        /\ locales = given.locales
        /\ options = given.options
        /\ <<openQuote, closeQuote>> = QuotesOf(given.quote)
        /\ separator = IF Provided(given.separator) THEN given.separator.s ELSE " "

\* C19 witness: log on an instance with a malformed locale has thrown the
\* formatter's RangeError and has not invoked the console.
C19_Witness ==
    /\ Called /\ call.method = "log" /\ call.args = <<Str("Hello")>>
    /\ locales = Str("en_US")
    /\ thrown = RangeError("Incorrect locale information provided")
    /\ events = <<>>

====
